---- MODULE Spec2Model ----
(***************************************************************************)
(* Model of the training-run controller of modules/ui/TrainUI.py (the      *)
(* foreground handlers start_training, sample_now, backup_now, save_now    *)
(* and the background __training_thread_function) and of the gradient      *)
(* schedule of modules/modelSetup/StableDiffusionXLEmbeddingSetup.py.      *)
(*                                                                         *)
(* The foreground is the single Qt event loop: one handler at a time, its  *)
(* position kept in fg.  Every run is a Python thread whose position is    *)
(* pc[k].  Threads interleave between statements, so every statement that  *)
(* reads or writes a shared attribute of TrainUI is a step of its own.     *)
(***************************************************************************)
EXTENDS Integers, Sequences, FiniteSets, TLC

\* ---- bounds of the model ------------------------------------------------
MaxRuns == 2        \* runs launched in one behaviour
TrainSteps == 2     \* optimizer steps of a run that trains to the end
MaxQueue == 1       \* commands waiting in one TrainCommands object
MaxUnits == 2       \* additional embeddings of a configuration
MaxStop == 2        \* largest stop_training_after of an additional embedding
MaxProgress == 4    \* optimizer steps of a run of the schedule
MaxResume == 1      \* progress a run may start from
StepsPerEpoch == 2  \* optimizer steps in one epoch

Runs == 1..MaxRuns
None == 0           \* Python's None for training_thread / training_commands

\* ---- controller state (TrainUI attributes) --------------------------------
VARIABLES
    training_thread,     \* self.training_thread: None or the run's thread
    training_commands,   \* self.training_commands: None or a TrainCommands
    training_callbacks,  \* self.training_callbacks: None or a TrainCallbacks
    button_text,         \* self.training_button.text()
    button_enabled,      \* self.training_button.isEnabled()
    status,              \* self.status_label.text()
    fg,                  \* position of the foreground (Qt event loop)
    fg_tag,              \* run that was live when the pending command was issued
    nruns,               \* threads created so far
    nqueues,             \* TrainCommands objects created so far
    pc,                  \* position of each run's thread
    trainer_commands,    \* the commands object each trainer was constructed with
    error_caught,        \* local error_caught of each thread
    stop_seen,           \* the trainer of the run has drained a Stop
    steps,               \* optimizer steps completed by the run
    queue,               \* contents of each TrainCommands object
    teardowns,           \* times the reset/cache-clear of a run has executed
    terminals,           \* terminal on_update_status calls of each run
    term_status,         \* the terminal status text of each run
    push_failed,         \* a push was attempted on a None training_commands
    stop_steps,          \* optimizer steps completed since a Stop was pushed
                         \* to the Running run (-1: no such Stop)
    calls,               \* trainer operations a thread has invoked before
                         \* trainer.end()
    cloud_enabled,       \* self.train_config.cloud.enabled
    observed_cloud       \* values of cloud.enabled each thread has read

ui_vars == <<training_thread, training_commands, training_callbacks,
             button_text, button_enabled, status, fg, fg_tag, nruns, nqueues,
             pc, trainer_commands, error_caught, stop_seen, steps, queue,
             teardowns, terminals, term_status, push_failed, stop_steps,
             calls, cloud_enabled, observed_cloud>>

\* ---- model and configuration (StableDiffusionXLEmbeddingSetup) ---------------
VARIABLES
    config,                 \* the TrainConfig the setup is called with
    requires_grad,          \* requires_grad of the sub-models and base vectors
    additional_embeddings,  \* requires_grad of model.additional_embeddings[i]
    train_progress,         \* model.train_progress.global_step
    setup_phase,            \* "loaded", "boundary" (flags applied), "stepped",
                            \* "reapplied" (flags applied once more) or
                            \* "failed" (__setup_requires_grad raised)
    normalize_calls,        \* calls of normalize_embeddings on each wrapper
    arg_progress            \* the train_progress argument of the last call of
                            \* after_optimizer_step (-1: none yet)

setup_vars == <<config, requires_grad, additional_embeddings, train_progress,
                setup_phase, normalize_calls, arg_progress>>

\* ---- device placement (StableDiffusionXLEmbeddingSetup.setup_train_device) ----
VARIABLES
    device,                 \* the device each sub-model is on
    training,               \* the train/eval mode flag of each sub-model
    placed                  \* setup_train_device has been called

device_vars == <<device, training, placed>>

vars == <<ui_vars, setup_vars, device_vars>>

\* ---- thread positions ------------------------------------------------------
StartingPcs == {"callbacks", "construct", "start"}
RunningPcs == {"drain", "step"}
TeardownPcs == {"end", "reset_thread", "reset_commands", "report",
                "btn_text", "btn_enable"}
EscapedPcs == {"escaped_ctor", "escaped_end"}

\* The run is Starting or Running: its thread executes lines 635-655.
RunActive(k) == pc[k] \in StartingPcs \cup RunningPcs

\* The thread of run k has not yet executed line 667.
RunLive(k) == pc[k] \in StartingPcs \cup RunningPcs \cup {"end", "reset_thread"}

LiveRun == IF \E k \in Runs : RunLive(k)
           THEN CHOOSE k \in Runs : RunLive(k)
           ELSE None

Terminated(k) == pc[k] \in {"done"} \cup EscapedPcs

InitUI ==
    /\ training_thread = None
    /\ training_commands = None
    /\ training_callbacks = None
    /\ button_text = "Start Training"
    /\ button_enabled = TRUE
    /\ status = ""
    /\ fg = "idle"
    /\ fg_tag = None
    /\ nruns = 0
    /\ nqueues = 0
    /\ pc = [k \in Runs |-> "unborn"]
    /\ trainer_commands = [k \in Runs |-> None]
    /\ error_caught = [k \in Runs |-> FALSE]
    /\ stop_seen = [k \in Runs |-> FALSE]
    /\ steps = [k \in Runs |-> 0]
    /\ queue = [q \in Runs |-> <<>>]
    /\ teardowns = [k \in Runs |-> 0]
    /\ terminals = [k \in Runs |-> 0]
    /\ term_status = [k \in Runs |-> ""]
    /\ push_failed = FALSE
    /\ stop_steps = [k \in Runs |-> -1]
    /\ calls = [k \in Runs |-> <<>>]
    /\ cloud_enabled = FALSE
    /\ observed_cloud = [k \in Runs |-> {}]

\* ---- TrainCommands (modules/util/commands/TrainCommands.py) ----------------
\* stop(), sample_default(), backup(), save(): record the request in the object.
TrainCommands_push(q, cmd, tag) ==
    queue' = [queue EXCEPT ![q] = Append(@, [cmd |-> cmd, tag |-> tag])]

\* A TrainCommands object that neither TrainUI nor a trainer refers to any
\* longer is unreachable: its contents are gone with it.
Collect(qs, ui_ref, trainer_refs) ==
    [q \in Runs |-> IF q = ui_ref \/ \E k \in Runs : trainer_refs[k] = q
                    THEN qs[q] ELSE <<>>]

CmdKinds == {"sample", "backup", "save"}

HasRoom == IF training_commands = None
           THEN TRUE
           ELSE Len(queue[training_commands]) < MaxQueue

\* ---- foreground: start_training (lines 681-699) ----------------------------
fg_frame == UNCHANGED <<training_callbacks, pc, trainer_commands, error_caught,
                        stop_seen, steps, teardowns, terminals,
                        term_status, calls, cloud_enabled, observed_cloud>>

\* line 682: the clicked signal of the training button; a disabled QPushButton
\* emits no clicked signal.  683 (save_default) touches no controller state.
StartTraining_click ==
    /\ fg = "idle"
    /\ button_enabled
    /\ IF training_thread = None
       THEN nruns < MaxRuns /\ fg' = "st_text" /\ fg_tag' = None
       ELSE HasRoom /\ fg' = "sp_disable" /\ fg_tag' = LiveRun
    /\ fg_frame
    /\ UNCHANGED <<training_thread, training_commands, button_text,
                   button_enabled, status, nruns, nqueues, queue, push_failed>>
    /\ UNCHANGED stop_steps

\* line 686
StartTraining_setText ==
    /\ fg = "st_text"
    /\ button_text' = "Stop Training"
    /\ fg' = "st_enable"
    /\ fg_frame
    /\ UNCHANGED <<training_thread, training_commands, button_enabled, status,
                   fg_tag, nruns, nqueues, queue, push_failed>>
    /\ UNCHANGED stop_steps

\* line 687
StartTraining_setEnabled ==
    /\ fg = "st_enable"
    /\ button_enabled' = TRUE
    /\ fg' = "st_commands"
    /\ fg_frame
    /\ UNCHANGED <<training_thread, training_commands, button_text, status,
                   fg_tag, nruns, nqueues, queue, push_failed>>
    /\ UNCHANGED stop_steps

\* Variant of line 689 that keeps a commands object that is still set.
StartTraining_newCommands_reuse ==
    /\ fg = "st_commands"
    /\ IF training_commands # None
       THEN UNCHANGED <<nqueues, training_commands, queue>>
       ELSE /\ nqueues' = nqueues + 1
            /\ training_commands' = nqueues + 1
            /\ queue' = Collect(queue, nqueues + 1, trainer_commands)
    /\ fg' = "st_thread"
    /\ fg_frame
    /\ UNCHANGED <<training_thread, button_text, button_enabled, status,
                   fg_tag, nruns, push_failed>>
    /\ UNCHANGED stop_steps

\* line 689: self.training_commands = TrainCommands()
StartTraining_newCommands ==
    /\ fg = "st_commands"
    /\ nqueues' = nqueues + 1
    /\ training_commands' = nqueues + 1
    /\ queue' = Collect(queue, nqueues + 1, trainer_commands)
    /\ fg' = "st_thread"
    /\ fg_frame
    /\ UNCHANGED <<training_thread, button_text, button_enabled, status,
                   fg_tag, nruns, push_failed>>
    /\ UNCHANGED stop_steps

\* Variant of lines 691-692 that starts the thread without storing it.
StartTraining_startThread_unstored ==
    /\ fg = "st_thread"
    /\ nruns' = nruns + 1
    /\ pc' = [pc EXCEPT ![nruns + 1] = "callbacks"]
    /\ fg' = "idle"
    /\ UNCHANGED <<training_thread, training_commands, training_callbacks,
                   button_text, button_enabled, status, fg_tag, nqueues,
                   trainer_commands, error_caught, stop_seen, steps, queue,
                   teardowns, terminals, term_status, push_failed>>
    /\ UNCHANGED <<stop_steps, calls, cloud_enabled, observed_cloud>>

\* lines 691-692: the Thread object is stored, then started
StartTraining_startThread ==
    /\ fg = "st_thread"
    /\ nruns' = nruns + 1
    /\ training_thread' = nruns + 1
    /\ pc' = [pc EXCEPT ![nruns + 1] = "callbacks"]
    /\ fg' = "idle"
    /\ UNCHANGED <<training_commands, training_callbacks, button_text,
                   button_enabled, status, fg_tag, nqueues, trainer_commands,
                   error_caught, stop_seen, steps, queue, teardowns,
                   terminals, term_status, push_failed>>
    /\ UNCHANGED <<stop_steps, calls, cloud_enabled, observed_cloud>>

\* line 696
StartTraining_disable ==
    /\ fg = "sp_disable"
    /\ button_enabled' = FALSE
    /\ fg' = "sp_status"
    /\ fg_frame
    /\ UNCHANGED <<training_thread, training_commands, button_text, status,
                   fg_tag, nruns, nqueues, queue, push_failed>>
    /\ UNCHANGED stop_steps

\* line 697: self.on_update_status("stopping")
StartTraining_stopping ==
    /\ fg = "sp_status"
    /\ status' = "stopping"
    /\ fg' = "sp_check"
    /\ fg_frame
    /\ UNCHANGED <<training_thread, training_commands, button_text,
                   button_enabled, fg_tag, nruns, nqueues, queue, push_failed>>
    /\ UNCHANGED stop_steps

\* line 698: if self.training_commands:
StartTraining_checkCommands ==
    /\ fg = "sp_check"
    /\ IF training_commands # None
       THEN fg' = "sp_push" /\ UNCHANGED fg_tag
       ELSE fg' = "idle" /\ fg_tag' = None
    /\ fg_frame
    /\ UNCHANGED <<training_thread, training_commands, button_text,
                   button_enabled, status, nruns, nqueues, queue, push_failed>>
    /\ UNCHANGED stop_steps

\* The attribute is read again by the call: on None the call raises
\* AttributeError and the handler is abandoned.
Push(cmd) ==
    /\ IF training_commands # None
       THEN /\ TrainCommands_push(training_commands, cmd, fg_tag)
            /\ stop_steps' = [k \in Runs |->
                                 IF /\ cmd = "stop"
                                    /\ training_thread = k
                                    /\ pc[k] \in RunningPcs
                                    /\ stop_steps[k] < 0
                                 THEN 0 ELSE stop_steps[k]]
            /\ UNCHANGED push_failed
       ELSE push_failed' = TRUE /\ UNCHANGED <<queue, stop_steps>>
    /\ fg' = "idle"
    /\ fg_tag' = None
    /\ fg_frame
    /\ UNCHANGED <<training_thread, training_commands, button_text,
                   button_enabled, status, nruns, nqueues>>

\* line 699: self.training_commands.stop()
StartTraining_pushStop ==
    /\ fg = "sp_push"
    /\ Push("stop")

\* ---- foreground: sample_now / backup_now / save_now (lines 721-731) --------
\* lines 722, 726, 730: if self.training_commands:
Command_check(cmd) ==
    /\ fg = "idle"
    /\ HasRoom
    /\ IF training_commands # None
       THEN fg' = cmd /\ fg_tag' = LiveRun
       ELSE fg' = "idle" /\ fg_tag' = None
    /\ fg_frame
    /\ UNCHANGED <<training_thread, training_commands, button_text,
                   button_enabled, status, nruns, nqueues, queue, push_failed>>
    /\ UNCHANGED stop_steps

\* lines 723, 727, 731
Command_push(cmd) ==
    /\ fg = cmd
    /\ Push(cmd)

sample_now == Command_check("sample") \/ Command_push("sample")
backup_now == Command_check("backup") \/ Command_push("backup")
save_now == Command_check("save") \/ Command_push("save")

\* ---- foreground: an edit of the configuration ---------------------------------
\* lines 87-88: the widgets are bound to self.train_config through ui_state; a
\* change of the cloud tab's "enabled" switch writes the shared object.
edit_cloud_enabled ==
    /\ fg = "idle"
    /\ cloud_enabled' = ~cloud_enabled
    /\ UNCHANGED <<training_thread, training_commands, training_callbacks,
                   button_text, button_enabled, status, fg, fg_tag, nruns,
                   nqueues, pc, trainer_commands, error_caught, stop_seen,
                   steps, queue, teardowns, terminals, term_status,
                   push_failed, stop_steps, calls, observed_cloud>>

\* ---- background: __training_thread_function (lines 632-679) ---------------
bg_frame == UNCHANGED <<fg, fg_tag, nruns, nqueues, push_failed, cloud_enabled>>

\* lines 633-638: error_caught = False; self.training_callbacks = TrainCallbacks(..)
Thread_callbacks(k) ==
    /\ pc[k] = "callbacks"
    /\ training_callbacks' = k
    /\ error_caught' = [error_caught EXCEPT ![k] = FALSE]
    /\ pc' = [pc EXCEPT ![k] = "construct"]
    /\ bg_frame
    /\ UNCHANGED <<training_thread, training_commands, button_text,
                   button_enabled, status, trainer_commands, stop_seen, steps,
                   queue, teardowns, terminals, term_status>>
    /\ UNCHANGED <<stop_steps, calls, observed_cloud>>

\* Variant of lines 640-649 that hands the trainer a commands object other
\* than the one the controller holds.
Thread_construct_otherCommands(k) ==
    /\ pc[k] = "construct"
    /\ \E raises \in BOOLEAN :
          IF raises
          THEN /\ pc' = [pc EXCEPT ![k] = "escaped_ctor"]
               /\ UNCHANGED <<trainer_commands, observed_cloud>>
          ELSE /\ pc' = [pc EXCEPT ![k] = "start"]
               /\ trainer_commands' =
                     [trainer_commands EXCEPT
                        ![k] = IF training_commands = None THEN None
                               ELSE (training_commands % MaxRuns) + 1]
               /\ observed_cloud' = [observed_cloud EXCEPT ![k] = {cloud_enabled}]
    /\ bg_frame
    /\ UNCHANGED <<training_thread, training_commands, training_callbacks,
                   button_text, button_enabled, status, error_caught, stop_seen,
                   steps, queue, teardowns, terminals, term_status>>
    /\ UNCHANGED <<stop_steps, calls>>

\* lines 640-649: the trainer is constructed outside the try block, from the
\* value self.training_commands has at that moment; an exception raised here
\* leaves the thread function.
Thread_construct(k) ==
    /\ pc[k] = "construct"
    /\ \E raises \in BOOLEAN :
          IF raises
          THEN /\ pc' = [pc EXCEPT ![k] = "escaped_ctor"]
               /\ UNCHANGED <<trainer_commands, observed_cloud>>
          ELSE /\ pc' = [pc EXCEPT ![k] = "start"]
               /\ trainer_commands' = [trainer_commands EXCEPT ![k] = training_commands]
               /\ observed_cloud' = [observed_cloud EXCEPT ![k] = {cloud_enabled}]
    /\ bg_frame
    /\ UNCHANGED <<training_thread, training_commands, training_callbacks,
                   button_text, button_enabled, status, error_caught, stop_seen,
                   steps, queue, teardowns, terminals, term_status>>
    /\ UNCHANGED <<stop_steps, calls>>

\* lines 656-660: except Exception: cloud.enabled is read again (657);
\* error_caught = True
Thread_except(k) ==
    /\ observed_cloud' = [observed_cloud EXCEPT ![k] = @ \cup {cloud_enabled}]
    /\ error_caught' = [error_caught EXCEPT ![k] = TRUE]
    /\ pc' = [pc EXCEPT ![k] = "end"]

\* lines 652-655: trainer.start(); when it returns, cloud.enabled is read
\* again (653) and trainer.train() is invoked
Thread_start(k) ==
    /\ pc[k] = "start"
    /\ \E raises \in BOOLEAN :
          IF raises
          THEN /\ Thread_except(k)
               /\ calls' = [calls EXCEPT ![k] = Append(@, "start_raised")]
          ELSE /\ pc' = [pc EXCEPT ![k] = "drain"]
               /\ observed_cloud' = [observed_cloud EXCEPT ![k] = @ \cup {cloud_enabled}]
               /\ calls' = [calls EXCEPT ![k] = @ \o <<"start", "train">>]
               /\ UNCHANGED error_caught
    /\ UNCHANGED stop_steps
    /\ bg_frame
    /\ UNCHANGED <<training_thread, training_commands, training_callbacks,
                   button_text, button_enabled, status, trainer_commands,
                   stop_seen, steps, queue, teardowns, terminals,
                   term_status>>

\* line 655, trainer.train(): the head of a loop iteration drains the commands
\* object the trainer was constructed with; a Stop ends the loop before the
\* next optimizer step.  Without a commands object the drain raises.
Trainer_drain(k) ==
    /\ pc[k] = "drain"
    /\ IF trainer_commands[k] = None
       THEN /\ Thread_except(k)
            /\ UNCHANGED <<queue, stop_seen>>
       ELSE LET q == trainer_commands[k]
                cmds == queue[q]
                stop == \E i \in 1..Len(cmds) : cmds[i].cmd = "stop"
            IN /\ queue' = [queue EXCEPT ![q] = <<>>]
               /\ stop_seen' = [stop_seen EXCEPT ![k] = @ \/ stop]
               /\ pc' = [pc EXCEPT ![k] = IF stop THEN "end" ELSE "step"]
               /\ UNCHANGED <<error_caught, observed_cloud>>
    /\ bg_frame
    /\ UNCHANGED <<training_thread, training_commands, training_callbacks,
                   button_text, button_enabled, status, trainer_commands, steps,
                   teardowns, terminals, term_status>>
    /\ UNCHANGED <<stop_steps, calls>>

\* line 655, trainer.train(): one optimizer step; it raises, or completes and
\* the loop goes on until the configured number of steps is done.
Trainer_step(k) ==
    /\ pc[k] = "step"
    /\ \E raises \in BOOLEAN :
          IF raises
          THEN Thread_except(k) /\ UNCHANGED <<steps, stop_steps>>
          ELSE /\ steps' = [steps EXCEPT ![k] = @ + 1]
               /\ stop_steps' = [stop_steps EXCEPT
                                   ![k] = IF @ >= 0 THEN @ + 1 ELSE @]
               /\ UNCHANGED observed_cloud
               /\ pc' = [pc EXCEPT ![k] = IF steps[k] + 1 >= TrainSteps
                                           THEN "end" ELSE "drain"]
               /\ UNCHANGED error_caught
    /\ bg_frame
    /\ UNCHANGED <<training_thread, training_commands, training_callbacks,
                   button_text, button_enabled, status, trainer_commands,
                   stop_seen, queue, teardowns, terminals, term_status>>
    /\ UNCHANGED calls

\* The local variable trainer goes away (del trainer, or the frame unwinding).
Trainer_del(k) ==
    /\ trainer_commands' = [trainer_commands EXCEPT ![k] = None]
    /\ steps' = [steps EXCEPT ![k] = 0]
    /\ stop_steps' = [stop_steps EXCEPT ![k] = -1]
    /\ observed_cloud' = [observed_cloud EXCEPT ![k] = {}]
    /\ queue' = Collect(queue, training_commands,
                        [trainer_commands EXCEPT ![k] = None])

\* line 662: trainer.end(), after the try block and outside any handler: an
\* exception raised here leaves the thread function.
Thread_end(k) ==
    /\ pc[k] = "end"
    /\ \E raises \in BOOLEAN :
          IF raises
          THEN /\ pc' = [pc EXCEPT ![k] = "escaped_end"]
               /\ Trainer_del(k)
          ELSE /\ pc' = [pc EXCEPT ![k] = "reset_thread"]
               /\ UNCHANGED <<trainer_commands, steps, queue, stop_steps,
                              observed_cloud>>
    /\ calls' = [calls EXCEPT ![k] = <<>>]
    /\ bg_frame
    /\ UNCHANGED <<training_thread, training_commands, training_callbacks,
                   button_text, button_enabled, status, error_caught, stop_seen,
                   teardowns, terminals, term_status>>

\* lines 665-667: del trainer; self.training_thread = None
Thread_resetThread(k) ==
    /\ pc[k] = "reset_thread"
    /\ Trainer_del(k)
    /\ training_thread' = None
    /\ pc' = [pc EXCEPT ![k] = "reset_commands"]
    /\ bg_frame
    /\ UNCHANGED <<training_commands, training_callbacks, button_text,
                   button_enabled, status, error_caught, stop_seen, teardowns,
                   terminals, term_status>>
    /\ UNCHANGED calls

\* lines 668-670: self.training_commands = None; the compute caches are cleared
Thread_resetCommands(k) ==
    /\ pc[k] = "reset_commands"
    /\ training_commands' = None
    /\ queue' = Collect(queue, None, trainer_commands)
    /\ teardowns' = [teardowns EXCEPT ![k] = @ + 1]
    /\ pc' = [pc EXCEPT ![k] = "report"]
    /\ bg_frame
    /\ UNCHANGED <<training_thread, training_callbacks, button_text,
                   button_enabled, status, trainer_commands, error_caught,
                   stop_seen, steps, terminals, term_status>>
    /\ UNCHANGED <<stop_steps, calls, observed_cloud>>

\* Variant of lines 672-675 without the error branch.
TerminalStatus_noError(err) == "stopped"

\* lines 672-675: the terminal status
TerminalStatus(err) ==
    IF err THEN "error: check the console for more information" ELSE "stopped"

\* lines 592-594 called from 672-675
Thread_report(k) ==
    /\ pc[k] = "report"
    /\ status' = TerminalStatus(error_caught[k])
    /\ term_status' = [term_status EXCEPT ![k] = TerminalStatus(error_caught[k])]
    /\ terminals' = [terminals EXCEPT ![k] = @ + 1]
    /\ pc' = [pc EXCEPT ![k] = "btn_text"]
    /\ bg_frame
    /\ UNCHANGED <<training_thread, training_commands, training_callbacks,
                   button_text, button_enabled, trainer_commands, error_caught,
                   stop_seen, steps, queue, teardowns>>
    /\ UNCHANGED <<stop_steps, calls, observed_cloud>>

\* line 678
Thread_setText(k) ==
    /\ pc[k] = "btn_text"
    /\ button_text' = "Start Training"
    /\ pc' = [pc EXCEPT ![k] = "btn_enable"]
    /\ bg_frame
    /\ UNCHANGED <<training_thread, training_commands, training_callbacks,
                   button_enabled, status, trainer_commands, error_caught,
                   stop_seen, steps, queue, teardowns, terminals,
                   term_status>>
    /\ UNCHANGED <<stop_steps, calls, observed_cloud>>

\* line 679
Thread_setEnabled(k) ==
    /\ pc[k] = "btn_enable"
    /\ button_enabled' = TRUE
    /\ pc' = [pc EXCEPT ![k] = "done"]
    /\ bg_frame
    /\ UNCHANGED <<training_thread, training_commands, training_callbacks,
                   button_text, status, trainer_commands, error_caught,
                   stop_seen, steps, queue, teardowns, terminals,
                   term_status>>
    /\ UNCHANGED <<stop_steps, calls, observed_cloud>>

\* ---- the controller -----------------------------------------------------------
start_training ==
    \/ StartTraining_click
    \/ StartTraining_setText
    \/ StartTraining_setEnabled
    \/ StartTraining_newCommands
    \/ StartTraining_startThread
    \/ StartTraining_disable
    \/ StartTraining_stopping
    \/ StartTraining_checkCommands
    \/ StartTraining_pushStop

training_thread_function(k) ==
    \/ Thread_callbacks(k)
    \/ Thread_construct(k)
    \/ Thread_start(k)
    \/ Trainer_drain(k)
    \/ Trainer_step(k)
    \/ Thread_end(k)
    \/ Thread_resetThread(k)
    \/ Thread_resetCommands(k)
    \/ Thread_report(k)
    \/ Thread_setText(k)
    \/ Thread_setEnabled(k)


\* ---- gradient schedule (StableDiffusionXLEmbeddingSetup.py) -----------------
TimeUnits == {"STEP", "EPOCH"}

\* TrainEmbeddingConfig: one entry of config.additional_embeddings
EmbeddingConfigs ==
    [train : BOOLEAN,
     stop_training_after : 0..MaxStop,
     stop_training_after_unit : TimeUnits]

SeqsUpTo(S, n) == UNION {[1..m -> S] : m \in 0..n}

\* The fields of TrainConfig the setup reads.
Configs ==
    [text_encoder_train_embedding : BOOLEAN,
     text_encoder_2_train_embedding : BOOLEAN,
     preserve_embedding_norm : BOOLEAN,
     align_prop : BOOLEAN,
     latent_caching : BOOLEAN,
     additional_embeddings : SeqsUpTo(EmbeddingConfigs, MaxUnits)]

AllFlags(b) ==
    [text_encoder_1 |-> b, text_encoder_2 |-> b, vae |-> b, unet |-> b,
     text_encoder_1_vector |-> b, text_encoder_2_vector |-> b]

\* A model as loaded, before setup_model: no additional embedding exists yet;
\* a run may continue from saved progress.
\* The schedule reads neither align_prop nor latent_caching: they keep the
\* values of TrainConfig.default_values().
InitModel ==
    /\ config \in {c \in Configs : ~c.align_prop /\ c.latent_caching}
    /\ requires_grad \in {AllFlags(TRUE), AllFlags(FALSE)}
    /\ additional_embeddings = <<>>
    /\ train_progress \in 0..MaxResume
    /\ setup_phase = "loaded"
    /\ normalize_calls = 0
    /\ arg_progress = -1

\* The model of the controller's state machine does not run the schedule.
SetupAtRest ==
    /\ config = [text_encoder_train_embedding |-> TRUE,
                 text_encoder_2_train_embedding |-> TRUE,
                 preserve_embedding_norm |-> FALSE,
                 align_prop |-> FALSE,
                 latent_caching |-> TRUE,
                 additional_embeddings |-> <<>>]
    /\ requires_grad = AllFlags(TRUE)
    /\ additional_embeddings = <<>>
    /\ train_progress = 0
    /\ setup_phase = "loaded"
    /\ normalize_calls = 0
    /\ arg_progress = -1

\* Progress measured in the unit's configured unit of measure.
ProgressIn(unit, global_step) ==
    IF unit = "STEP" THEN global_step ELSE global_step \div StepsPerEpoch

\* stop_additional_embedding_training_elapsed(embedding_config, train_progress, i):
\* the threshold is compared with the progress; zero means "never stops".
stop_additional_embedding_training_elapsed(embedding_config, global_step, i) ==
    /\ embedding_config.stop_training_after # 0
    /\ ProgressIn(embedding_config.stop_training_after_unit, global_step)
          >= embedding_config.stop_training_after

\* Variant of lines 61-64 that leaves the stop condition out.
train_embedding_1_unstopped(cfg, global_step, i) ==
    /\ cfg.additional_embeddings[i].train
    /\ cfg.text_encoder_train_embedding

\* lines 61-64
train_embedding_1(cfg, global_step, i) ==
    /\ cfg.additional_embeddings[i].train
    /\ cfg.text_encoder_train_embedding
    /\ ~stop_additional_embedding_training_elapsed(cfg.additional_embeddings[i], global_step, i)

\* Variant of lines 67-70 that tests the first encoder's flag.
train_embedding_2_encoder_1(cfg, global_step, i) ==
    /\ cfg.additional_embeddings[i].train
    /\ cfg.text_encoder_train_embedding
    /\ ~stop_additional_embedding_training_elapsed(cfg.additional_embeddings[i], global_step, i)

\* lines 67-70
train_embedding_2(cfg, global_step, i) ==
    /\ cfg.additional_embeddings[i].train
    /\ cfg.text_encoder_2_train_embedding
    /\ ~stop_additional_embedding_training_elapsed(cfg.additional_embeddings[i], global_step, i)

\* Variant of lines 50-53 that leaves the flag of a sub-model as it is.
submodel_requires_grad_kept(old) == old

\* lines 50-53: requires_grad_(False) on a sub-model, whatever its flag was
submodel_requires_grad(old) == FALSE

\* line 59: config.additional_embeddings[i] raises IndexError for a unit
\* without an entry, when the model has n additional embeddings.
index_error(n) == n > Len(config.additional_embeddings)

\* lines 58-71: the loop over the n additional embeddings of the model.  On an
\* IndexError the units from the missing entry on keep the flags they had; the
\* flags of a unit that has just been created are not known.
setup_requires_grad_loop(n) ==
    IF index_error(n)
    THEN \E fresh \in [1..n -> [text_encoder_1_vector : BOOLEAN,
                                 text_encoder_2_vector : BOOLEAN]] :
            additional_embeddings' =
               [i \in 1..n |->
                   IF i <= Len(config.additional_embeddings)
                   THEN [text_encoder_1_vector |-> train_embedding_1(config, train_progress', i),
                         text_encoder_2_vector |-> train_embedding_2(config, train_progress', i)]
                   ELSE IF i <= Len(additional_embeddings)
                        THEN additional_embeddings[i] ELSE fresh[i]]
    ELSE additional_embeddings' =
            [i \in 1..n |->
                [text_encoder_1_vector |-> train_embedding_1(config, train_progress', i),
                 text_encoder_2_vector |-> train_embedding_2(config, train_progress', i)]]

\* The phase reached by a call of __setup_requires_grad that would reach phase
\* ok when it returns.
phase_after(n, ok) == IF index_error(n) THEN "failed" ELSE ok

\* Variant of lines 55-56 that flips the flag of the base vectors.
setup_requires_grad_flip(n) ==
    /\ requires_grad' =
          [text_encoder_1 |-> submodel_requires_grad(requires_grad.text_encoder_1),
           text_encoder_2 |-> submodel_requires_grad(requires_grad.text_encoder_2),
           vae |-> submodel_requires_grad(requires_grad.vae),
           unet |-> submodel_requires_grad(requires_grad.unet),
           text_encoder_1_vector |-> ~requires_grad.text_encoder_1_vector,
           text_encoder_2_vector |-> ~requires_grad.text_encoder_2_vector]
    /\ setup_requires_grad_loop(n)

\* lines 45-71: __setup_requires_grad(model, config), for a model with n
\* additional embeddings
setup_requires_grad(n) ==
    /\ requires_grad' =
          [text_encoder_1 |-> submodel_requires_grad(requires_grad.text_encoder_1),
           text_encoder_2 |-> submodel_requires_grad(requires_grad.text_encoder_2),
           vae |-> submodel_requires_grad(requires_grad.vae),
           unet |-> submodel_requires_grad(requires_grad.unet),
           text_encoder_1_vector |-> TRUE, text_encoder_2_vector |-> TRUE]
    /\ setup_requires_grad_loop(n)

\* Variant of lines 73-92 in which the model has one additional embedding
\* more than config.additional_embeddings has entries.
setup_model_extra_unit ==
    /\ setup_phase = "loaded"
    /\ UNCHANGED train_progress
    /\ setup_requires_grad(Len(config.additional_embeddings) + 1)
    /\ setup_phase' = phase_after(Len(config.additional_embeddings) + 1, "boundary")
    /\ UNCHANGED <<config, normalize_calls, arg_progress>>

\* lines 73-92: setup_model; _setup_additional_embeddings (line 87) creates one
\* additional embedding per entry of config.additional_embeddings.
setup_model ==
    /\ setup_phase = "loaded"
    /\ UNCHANGED train_progress
    /\ setup_requires_grad(Len(config.additional_embeddings))
    /\ setup_phase' = phase_after(Len(config.additional_embeddings), "boundary")
    /\ UNCHANGED <<config, normalize_calls, arg_progress>>

\* lines 45-71 applied once more at a step boundary, with the configuration
\* and the progress as they are.
setup_requires_grad_again ==
    /\ setup_phase = "boundary"
    /\ UNCHANGED train_progress
    /\ setup_requires_grad(Len(additional_embeddings))
    /\ setup_phase' = phase_after(Len(additional_embeddings), "reapplied")
    /\ UNCHANGED <<config, normalize_calls, arg_progress>>

\* The trainer's optimizer step: progress advances by one step.
optimizer_step ==
    /\ setup_phase \in {"boundary", "reapplied"}
    /\ train_progress < MaxProgress
    /\ train_progress' = train_progress + 1
    /\ setup_phase' = "stepped"
    /\ UNCHANGED <<config, requires_grad, additional_embeddings, normalize_calls,
                   arg_progress>>

\* Variant of line 117 that normalizes only while the first encoder's
\* embedding is trained.
normalizes_when_trained(cfg) ==
    cfg.preserve_embedding_norm /\ cfg.text_encoder_train_embedding

\* line 117: if config.preserve_embedding_norm
normalizes(cfg) == cfg.preserve_embedding_norm

\* lines 111-120: after_optimizer_step(model, config, train_progress); the
\* caller supplies the progress of the model or a fresh TrainProgress, and
\* line 120 calls __setup_requires_grad(model, config), which reads
\* model.train_progress.
after_optimizer_step ==
    /\ setup_phase = "stepped"
    /\ \E arg \in {0, train_progress} : arg_progress' = arg
    /\ normalize_calls' = IF normalizes(config)
                          THEN normalize_calls + 1 ELSE normalize_calls
    /\ UNCHANGED train_progress
    /\ setup_requires_grad(Len(additional_embeddings))
    /\ setup_phase' = phase_after(Len(additional_embeddings), "boundary")
    /\ UNCHANGED config

\* ---- device placement (lines 94-109) ----------------------------------------
Components == {"text_encoder_1", "text_encoder_2", "vae", "unet"}
Devices == {"train_device", "temp_device"}

\* A model whose sub-models are on any device and in any mode; setup_train_device
\* does not read config.additional_embeddings.
InitPlacement ==
    /\ config \in {c \in Configs : c.additional_embeddings = <<>>}
    /\ requires_grad = AllFlags(FALSE)
    /\ additional_embeddings = <<>>
    /\ train_progress = 0
    /\ setup_phase = "loaded"
    /\ normalize_calls = 0
    /\ arg_progress = -1
    /\ device \in [Components -> Devices]
    /\ training \in [Components -> BOOLEAN]
    /\ placed = FALSE

\* The models of the controller and of the schedule do not place the model.
PlacementAtRest ==
    /\ device = [c \in Components |-> "temp_device"]
    /\ training = [c \in Components |-> FALSE]
    /\ placed = FALSE

\* Variant of line 99 that requires both conditions.
vae_on_train_device_both(cfg) == cfg.align_prop /\ ~cfg.latent_caching

\* line 99
vae_on_train_device(cfg) == cfg.align_prop \/ ~cfg.latent_caching

\* line 101
text_encoder_1_device(cfg) ==
    IF cfg.text_encoder_train_embedding THEN "train_device" ELSE "temp_device"

\* line 102
text_encoder_2_device(cfg) ==
    IF cfg.text_encoder_2_train_embedding THEN "train_device" ELSE "temp_device"

\* line 103
vae_device(cfg) ==
    IF vae_on_train_device(cfg) THEN "train_device" ELSE "temp_device"

\* Variant of line 104 that places the UNet as the VAE is placed.
unet_device_as_vae(cfg) ==
    IF vae_on_train_device(cfg) THEN "train_device" ELSE "temp_device"

\* line 104: model.unet_to(self.train_device)
unet_device(cfg) == "train_device"

\* lines 94-109: setup_train_device(model, config): the sub-models are moved,
\* then every one of them is put in eval mode.
setup_train_device ==
    /\ device' = [text_encoder_1 |-> text_encoder_1_device(config),
                  text_encoder_2 |-> text_encoder_2_device(config),
                  vae |-> vae_device(config),
                  unet |-> unet_device(config)]
    /\ training' = [c \in Components |-> FALSE]
    /\ placed' = TRUE

\* ==== properties of the training-run controller ===============================
ErrorStatus == "error: check the console for more information"

\* RunOutcome of a run whose trainer has come back.
Outcome(k) == IF error_caught[k] THEN "Failed"
              ELSE IF stop_seen[k] THEN "Stopped" ELSE "Completed"

\* Nothing is executing: the event loop is idle and no thread is running.
Quiescent == fg = "idle" /\ \A k \in Runs : pc[k] \in {"unborn"} \cup {"done"} \cup EscapedPcs

\* C1: whichever way a launched run exits, its teardown (reset of
\* training_thread and training_commands, cache clearing) has executed exactly
\* once and the controller no longer holds the run.
C1_TeardownExactlyOnce ==
    \A k \in Runs : Terminated(k) => (teardowns[k] = 1 /\ training_thread # k)

\* C2: no exception raised in trainer.start(), trainer.train() or the teardown
\* that follows leaves the thread function.
C2_NoExceptionEscapes ==
    \A k \in Runs : pc[k] # "escaped_end"

\* C3: every run that has ended has delivered exactly one terminal status.
C3_ExactlyOneTerminalStatus ==
    \A k \in Runs : Terminated(k) => terminals[k] = 1

\* C4: once a run has ended and nothing is executing any more, no run is
\* active, the button is enabled and reads "Start Training", and the status is
\* not left at "stopping".  (Stated for behaviours in which no exception left
\* a thread function.)
C4_ForegroundRegainsControl ==
    (/\ Quiescent
     /\ \E k \in Runs : pc[k] = "done"
     /\ \A k \in Runs : pc[k] \notin EscapedPcs)
    => (/\ training_thread = None
        /\ button_enabled
        /\ button_text = "Start Training"
        /\ status # "stopping")

StartTrainingPcs == {"st_text", "st_enable", "st_commands", "st_thread",
                     "sp_disable", "sp_status", "sp_check", "sp_push"}

\* A step of the start_training handler.
StartTrainingStep ==
    /\ fg' # fg
    /\ \/ fg = "idle" /\ fg' \in StartTrainingPcs
       \/ fg \in StartTrainingPcs

OnlyStopAppended ==
    \A q \in Runs :
        \/ queue'[q] = queue[q]
        \/ \E t \in 0..MaxRuns : queue'[q] = Append(queue[q], [cmd |-> "stop", tag |-> t])

\* C6: at most one run is Starting or Running at any time, and a step of
\* start_training taken while a run is Starting or Running creates no thread,
\* creates no commands object, leaves training_thread and training_commands
\* alone and changes a queue at most by appending a Stop.
C6_NoSecondRun ==
    /\ [](Cardinality({k \in Runs : RunActive(k)}) <= 1)
    /\ [][(StartTrainingStep /\ \E k \in Runs : RunActive(k))
          => (/\ pc' = pc
              /\ nruns' = nruns
              /\ nqueues' = nqueues
              /\ training_thread' = training_thread
              /\ training_commands' = training_commands
              /\ OnlyStopAppended)]_vars

C6_Witness ==
    \E k \in Runs :
        /\ RunActive(k)
        /\ fg = "idle"
        /\ training_commands = k
        /\ \E i \in 1..Len(queue[k]) : queue[k][i].cmd = "stop"

\* C7: while run k is Starting or Running, training_commands is run k's own
\* commands object: nothing has removed or replaced it.
C7_QueueStaysReachable ==
    \A k \in Runs : RunActive(k) => training_commands = k

\* C8: every command waiting in the commands object a trainer reads was issued
\* while that trainer's run was live; a command issued while no run was live
\* is in no such object.
C8_IdleCommandsDiscarded ==
    \A k \in Runs :
        (pc[k] \in {"start", "drain", "step"} /\ trainer_commands[k] # None)
        => \A i \in 1..Len(queue[trainer_commands[k]]) :
               queue[trainer_commands[k]][i].tag = k

\* A command issued while no run was live has been pushed (into the commands
\* object of the run that is tearing down).
C8_Witness ==
    \E q \in Runs : \E i \in 1..Len(queue[q]) :
        queue[q][i].tag = None /\ queue[q][i].cmd \in CmdKinds

\* ==== properties of the gradient schedule ======================================
UnitIndices == 1..Len(additional_embeddings)

\* C9: at every step boundary each vector of every additional unit is
\* gradient-enabled iff the unit's train intent is true and the owning
\* encoder's train-embedding flag is true and the unit's stop condition has not
\* elapsed at the current progress.
C9_AdditionalUnitEnabledIff ==
    setup_phase = "boundary" =>
        \A i \in UnitIndices :
            LET ec == config.additional_embeddings[i]
                running == ~stop_additional_embedding_training_elapsed(ec, train_progress, i)
            IN /\ additional_embeddings[i].text_encoder_1_vector
                    <=> (ec.train /\ config.text_encoder_train_embedding /\ running)
               /\ additional_embeddings[i].text_encoder_2_vector
                    <=> (ec.train /\ config.text_encoder_2_train_embedding /\ running)
               /\ ~ec.train => (/\ ~additional_embeddings[i].text_encoder_1_vector
                                /\ ~additional_embeddings[i].text_encoder_2_vector)

\* The two encoders' flags differ, a unit wants to train and is still running.
C9_Witness ==
    /\ setup_phase = "boundary"
    /\ train_progress > 0
    /\ config.text_encoder_train_embedding # config.text_encoder_2_train_embedding
    /\ \E i \in UnitIndices :
          /\ config.additional_embeddings[i].train
          /\ additional_embeddings[i].text_encoder_1_vector
                # additional_embeddings[i].text_encoder_2_vector

\* Unit i wants to train on encoder 1 resp. 2.
Intent1(i) == config.additional_embeddings[i].train /\ config.text_encoder_train_embedding
Intent2(i) == config.additional_embeddings[i].train /\ config.text_encoder_2_train_embedding

Threshold(i) == config.additional_embeddings[i].stop_training_after
Progress(i) == ProgressIn(config.additional_embeddings[i].stop_training_after_unit,
                          train_progress)

\* C10: a unit with train intent, encoder flag and threshold T is enabled at
\* every step boundary with progress < T and disabled at every boundary with
\* progress >= T; with T = 0 it is enabled at every boundary; and a unit that
\* is disabled is not enabled again by a later step.
C10_StopAfterThreshold ==
    /\ [](setup_phase = "boundary" =>
            \A i \in UnitIndices :
                /\ Intent1(i) =>
                     (additional_embeddings[i].text_encoder_1_vector
                        <=> (Threshold(i) = 0 \/ Progress(i) < Threshold(i)))
                /\ Intent2(i) =>
                     (additional_embeddings[i].text_encoder_2_vector
                        <=> (Threshold(i) = 0 \/ Progress(i) < Threshold(i))))
    /\ [][\A i \in UnitIndices :
            /\ ~additional_embeddings[i].text_encoder_1_vector
                 => ~additional_embeddings'[i].text_encoder_1_vector
            /\ ~additional_embeddings[i].text_encoder_2_vector
                 => ~additional_embeddings'[i].text_encoder_2_vector]_vars

\* A unit has run past its threshold and is disabled after having trained.
C10_Witness ==
    /\ setup_phase = "boundary"
    /\ \E i \in UnitIndices :
          /\ Intent1(i)
          /\ Threshold(i) > 0
          /\ Progress(i) > Threshold(i)
          /\ ~additional_embeddings[i].text_encoder_1_vector


\* The decision rule for the base unit of each encoder.
BaseRule1 == config.text_encoder_train_embedding
BaseRule2 == config.text_encoder_2_train_embedding

\* C11: at every step boundary the base vector of each encoder is
\* gradient-enabled iff that encoder's train-embedding flag is true.
C11_BaseUnitFollowsEncoderFlag ==
    setup_phase = "boundary" =>
        /\ requires_grad.text_encoder_1_vector <=> BaseRule1
        /\ requires_grad.text_encoder_2_vector <=> BaseRule2

\* The set of gradient-enabled units: <<i, e>> is the vector of unit i for
\* encoder e; unit 0 is the base unit.
EnabledUnits ==
    {u \in {<<0, 1>>} : requires_grad.text_encoder_1_vector}
    \cup {u \in {<<0, 2>>} : requires_grad.text_encoder_2_vector}
    \cup {<<i, 1>> : i \in {j \in UnitIndices : additional_embeddings[j].text_encoder_1_vector}}
    \cup {<<i, 2>> : i \in {j \in UnitIndices : additional_embeddings[j].text_encoder_2_vector}}

\* The set the decision rule yields for the current progress and configuration.
RuleUnits ==
    {u \in {<<0, 1>>} : BaseRule1}
    \cup {u \in {<<0, 2>>} : BaseRule2}
    \cup {<<i, 1>> : i \in {j \in UnitIndices :
             Intent1(j) /\ (Threshold(j) = 0 \/ Progress(j) < Threshold(j))}}
    \cup {<<i, 2>> : i \in {j \in UnitIndices :
             Intent2(j) /\ (Threshold(j) = 0 \/ Progress(j) < Threshold(j))}}

\* C12: at every step boundary the set of gradient-enabled units is exactly
\* the set the decision rule yields for the current progress and configuration.
C12_EnabledSetIsRuleSet ==
    setup_phase = "boundary" => EnabledUnits = RuleUnits

\* The trainer of run k has left its loop and has not yet been deleted.
LoopLeft(k) == pc[k] \in {"end", "reset_thread"}

C14_ConfigFixedAtStarting ==
    \A k \in Runs : Cardinality(observed_cloud[k]) <= 1

\* Setup of run k failed: the construction of the trainer or trainer.start()
\* raised.
SetupFailed(k) ==
    \/ pc[k] = "escaped_ctor"
    \/ Len(calls[k]) > 0 /\ calls[k][1] = "start_raised"

\* C15: the trainer operations are invoked in the order start, train (only
\* if start returned), and end comes after them; a run whose setup failed
\* never invokes train(), has outcome Failed with the error status, and its
\* teardown executes.
C15_SetupFailureAborts ==
    \A k \in Runs :
        /\ calls[k] \in {<<>>, <<"start_raised">>, <<"start", "train">>}
        /\ (SetupFailed(k) /\ pc[k] = "end") => Outcome(k) = "Failed"
        /\ pc[k] = "escaped_ctor" =>
               /\ term_status[k] = ErrorStatus
               /\ teardowns[k] = 1

\* C16: for every configuration, after setup_train_device the UNet is on the
\* train device and in eval mode.
C16_UnetPinnedAndEval ==
    placed => (device["unet"] = "train_device" /\ ~training["unet"])

\* The UNet has been placed under a configuration that sends every other
\* sub-model to the holding device.
C16_Witness ==
    /\ placed
    /\ ~config.text_encoder_train_embedding
    /\ ~config.text_encoder_2_train_embedding
    /\ ~config.align_prop /\ config.latent_caching
    /\ device["unet"] = "train_device"

\* A step of setup_requires_grad_again.
ReapplyStep == setup_phase = "boundary" /\ setup_phase' = "reapplied"

\* C17: applying the requires-grad schedule once more, with unchanged
\* configuration and progress, changes no unit's and no sub-model's flag.
C17_ReapplicationIdempotent ==
    [][ReapplyStep =>
          (requires_grad' = requires_grad
           /\ additional_embeddings' = additional_embeddings)]_vars

\* The schedule has been applied once more after some unit's training stopped.
C17_Witness ==
    /\ setup_phase = "reapplied"
    /\ \E i \in UnitIndices :
          /\ Intent1(i) /\ Threshold(i) > 0 /\ Progress(i) >= Threshold(i)
          /\ ~additional_embeddings[i].text_encoder_1_vector

\* C18: after setup_train_device, text encoder 1 is on the train device iff
\* text_encoder.train_embedding, text encoder 2 iff
\* text_encoder_2.train_embedding, the VAE iff align_prop is set or latent
\* caching is off; a sub-model that is not on the train device is on the temp
\* device.
C18_PlacementRule ==
    placed =>
        /\ device["text_encoder_1"] = "train_device"
              <=> config.text_encoder_train_embedding
        /\ device["text_encoder_2"] = "train_device"
              <=> config.text_encoder_2_train_embedding
        /\ device["vae"] = "train_device"
              <=> (config.align_prop \/ ~config.latent_caching)
        /\ \A c \in Components :
              device[c] # "train_device" => device[c] = "temp_device"

\* The VAE has been placed on the train device by align_prop alone, and the
\* two text encoders on different devices.
C18_Witness ==
    /\ placed
    /\ config.align_prop /\ config.latent_caching
    /\ device["vae"] = "train_device"
    /\ device["text_encoder_1"] = "temp_device"
    /\ device["text_encoder_2"] = "train_device"

\* A step of after_optimizer_step.
AfterStep == setup_phase = "stepped" /\ setup_phase' = "boundary"

\* C19: after an optimizer step the embeddings are normalized iff
\* preserve_embedding_norm is set, whatever the enablement of the units.
C19_NormalizeIffPreserve ==
    [][AfterStep =>
          normalize_calls' = normalize_calls
                             + (IF config.preserve_embedding_norm THEN 1 ELSE 0)]_vars

\* Normalization has been applied although the first encoder's embedding is
\* not trained and a unit with training intent is disabled.
C19_Witness ==
    /\ setup_phase = "boundary"
    /\ normalize_calls > 0
    /\ ~config.text_encoder_train_embedding
    /\ \E i \in UnitIndices :
          /\ config.additional_embeddings[i].train
          /\ ~additional_embeddings[i].text_encoder_1_vector
          /\ ~additional_embeddings[i].text_encoder_2_vector

\* C20: two calls of after_optimizer_step with the same configuration and the
\* same train_progress argument produce the same flags for every unit.
C20_EqualArgumentEqualFlags ==
    [][(AfterStep /\ arg_progress' = arg_progress) =>
          (additional_embeddings' = additional_embeddings
           /\ requires_grad' = requires_grad)]_vars

\* A step of the stop branch of start_training (lines 682, 696-699).
StopHandlerStep ==
    /\ fg' # fg
    /\ \/ fg = "idle" /\ fg' = "sp_disable"
       \/ fg \in {"sp_disable", "sp_status", "sp_check", "sp_push"}

\* The last step of the stop branch.
StopHandlerEnds == fg \in {"sp_check", "sp_push"} /\ fg' = "idle"

\* C21: a stop request leaves training_thread, training_commands, the trainer
\* and the thread alone and changes a queue at most by appending a Stop; when
\* it ends while the run is still Starting or Running, the button is disabled
\* and a Stop is the last entry of the run's queue; training_thread is reset
\* by the thread's own teardown (line 667) only.
C21_StopOnlyRecordsIntent ==
    /\ [][StopHandlerStep =>
             (/\ training_thread' = training_thread
              /\ training_commands' = training_commands
              /\ trainer_commands' = trainer_commands
              /\ pc' = pc
              /\ OnlyStopAppended)]_vars
    /\ [][(StopHandlerEnds /\ training_thread # None /\ RunActive(training_thread)) =>
             (/\ ~button_enabled'
              /\ Len(queue'[training_thread]) > 0
              /\ queue'[training_thread][Len(queue'[training_thread])].cmd = "stop")]_vars
    /\ [][(training_thread # None /\ training_thread' = None) =>
             (/\ pc[training_thread] = "reset_thread"
              /\ pc'[training_thread] = "reset_commands")]_vars

C23_LabelAgreesWithState ==
    (fg = "idle" /\ button_enabled) =>
        /\ button_text \in {"Start Training", "Stop Training"}
        /\ button_text = "Stop Training" <=> training_thread # None

\* lines 609-610: open_sampling_tool opens the sample window iff neither
\* training_callbacks nor training_commands is set.
open_sampling_tool_opens == training_callbacks = None /\ training_commands = None

\* C24: whenever nothing is executing and no run is held, open_sampling_tool
\* opens the sample window; while a run is Starting or Running it does not.
C24_SamplingToolOpensWhenIdle ==
    /\ (Quiescent /\ training_thread = None) => open_sampling_tool_opens
    /\ (\E k \in Runs : RunActive(k)) => ~open_sampling_tool_opens

\* C25: once setup_model has run, and after every after_optimizer_step, none
\* of text encoder 1, text encoder 2, VAE and UNet is gradient-enabled.
C25_SubmodelsFrozen ==
    setup_phase # "loaded" =>
        /\ ~requires_grad.text_encoder_1
        /\ ~requires_grad.text_encoder_2
        /\ ~requires_grad.vae
        /\ ~requires_grad.unet

\* after_optimizer_step has run under a configuration that trains the
\* embeddings of both encoders, with a unit enabled, and the sub-models are
\* frozen.
C25_Witness ==
    /\ setup_phase = "boundary"
    /\ arg_progress >= 0
    /\ config.text_encoder_train_embedding
    /\ config.text_encoder_2_train_embedding
    /\ \E i \in UnitIndices : additional_embeddings[i].text_encoder_1_vector
    /\ ~requires_grad.unet /\ ~requires_grad.text_encoder_1

\* lines 26-43: create_parameters registers the group "embeddings_1" iff
\* text_encoder.train_embedding and "embeddings_2" iff
\* text_encoder_2.train_embedding; the set of encoders with a group.
create_parameters(cfg) ==
    {e \in {1} : cfg.text_encoder_train_embedding}
    \cup {e \in {2} : cfg.text_encoder_2_train_embedding}

\* C26: at every step boundary every gradient-enabled embedding vector, base
\* or additional, belongs to an encoder for which create_parameters
\* registered a parameter group.
C26_EnabledVectorsHaveGroup ==
    setup_phase = "boundary" =>
        \A u \in EnabledUnits : u[2] \in create_parameters(config)

Init == InitUI /\ SetupAtRest /\ PlacementAtRest

Next ==
    /\ \/ start_training
       \/ sample_now
       \/ backup_now
       \/ save_now
       \/ \E k \in Runs : training_thread_function(k)
    /\ UNCHANGED <<setup_vars, device_vars>>

Spec == Init /\ [][Next]_vars

\* The controller together with edits of the configuration made in the
\* foreground while it runs.
NextEdit ==
    \/ Next
    \/ edit_cloud_enabled /\ UNCHANGED <<setup_vars, device_vars>>

SpecEdit == Init /\ [][NextEdit]_vars

\* The gradient schedule on its own: the controller stays as constructed.
InitSetup == InitUI /\ InitModel /\ PlacementAtRest

NextSetup ==
    /\ \/ setup_model
       \/ setup_requires_grad_again
       \/ optimizer_step
       \/ after_optimizer_step
    /\ UNCHANGED <<ui_vars, device_vars>>

SpecSetup == InitSetup /\ [][NextSetup]_vars

\* The device placement on its own.
InitDevice == InitUI /\ InitPlacement

NextDevice == setup_train_device /\ UNCHANGED <<ui_vars, setup_vars>>

SpecDevice == InitDevice /\ [][NextDevice]_vars
====
